---- MODULE Spec2Model ----
(***************************************************************************)
(* A model of the record-cleaning core of the maternal/child health equity *)
(* repository: src/src/data_processing.py (clean_currency,                 *)
(* categorize_program, get_state_summary, identify_outliers,               *)
(* validate_data_quality) and src/src/api_fetcher.py                       *)
(* (merge_health_and_funding).                                             *)
(*                                                                         *)
(* Every function of the core is a synchronous call on in-memory values.   *)
(* A call is modelled as one action that takes the machine from            *)
(* pc = "call" (arguments chosen) to pc = "return" (result, raised         *)
(* exception and printed output recorded).  There is one specification per *)
(* function; the variables of the other functions stay at their idle       *)
(* values.                                                                 *)
(*                                                                         *)
(* Python strings are TLA+ strings, handled one character at a time with   *)
(* Len, SubSeq and \o.  A scalar that may be a string, a number or a       *)
(* missing marker is a tagged record (see Scalars).                        *)
(***************************************************************************)
EXTENDS Integers, Sequences, FiniteSets, TLC

VARIABLES
    pc,             \* "call" before the function runs, "return" after
    program_name,   \* categorize_program: the argument
    category,       \* categorize_program: the returned label
    amount_str,     \* clean_currency: the argument
    amount,         \* clean_currency: the returned value
    df,             \* get_state_summary / validate_data_quality: the table
    summary,        \* get_state_summary: the returned table
    funding_df,     \* merge_health_and_funding: the left table
    health_df,      \* merge_health_and_funding: the right table
    merged,         \* merge_health_and_funding: the returned table
    series,         \* identify_outliers: the sequence
    method,         \* identify_outliers: the method selector
    threshold,      \* identify_outliers: the threshold
    flags,          \* identify_outliers: the returned mask, or NoFlags
    raised,         \* the exception that reached the caller, or NoException
    printed         \* what the function printed (a report record), or Nothing

vars == << pc, program_name, category, amount_str, amount, df, summary,
           funding_df, health_df, merged, series, method, threshold, flags,
           raised, printed >>

Idle == "idle"
NoException == "none"
Nothing == "nothing"

(***************************************************************************)
(* Strings.                                                                *)
(***************************************************************************)
RECURSIVE StringsUpTo(_, _)
\* All strings of at most n characters over an alphabet of 1-character strings.
StringsUpTo(alphabet, n) ==
    IF n = 0 THEN {""}
    ELSE LET shorter == StringsUpTo(alphabet, n - 1)
         IN  shorter \cup {s \o c : s \in shorter, c \in alphabet}

CharAt(s, i) == SubSeq(s, i, i)

UpperCase == "ABCDEFGHIJKLMNOPQRSTUVWXYZ"
LowerCase == "abcdefghijklmnopqrstuvwxyz"

\* str.lower() on one character.
LowerChar(c) ==
    IF \E i \in 1..Len(UpperCase) : CharAt(UpperCase, i) = c
    THEN CharAt(LowerCase, CHOOSE i \in 1..Len(UpperCase) : CharAt(UpperCase, i) = c)
    ELSE c

RECURSIVE lower(_)
\* str.lower(): every character lowered, in place.
lower(s) ==
    IF s = "" THEN ""
    ELSE LowerChar(CharAt(s, 1)) \o lower(SubSeq(s, 2, Len(s)))

\* Python's `needle in haystack` on strings: needle occurs as a contiguous run.
In(needle, haystack) ==
    \E i \in 1..(Len(haystack) - Len(needle) + 1) :
        SubSeq(haystack, i, i + Len(needle) - 1) = needle

(***************************************************************************)
(* Scalars: a Python value that is a string, an integer, a float or None.  *)
(* Only the fields its tag names are meaningful.                           *)
(***************************************************************************)
StrVal(s)      == [tag |-> "str",   str |-> s,  num |-> 0, den |-> 1]
IntVal(n)      == [tag |-> "int",   str |-> "", num |-> n, den |-> 1]
None           == [tag |-> "none",  str |-> "", num |-> 0, den |-> 1]
\* A float: NaN, the two infinities, or a finite value (see Float).
NaN            == [tag |-> "nan",   str |-> "", num |-> 0, den |-> 1]
PosInf         == [tag |-> "inf",   str |-> "", num |-> 1, den |-> 1]
NegInf         == [tag |-> "inf",   str |-> "", num |-> -1, den |-> 1]

Abs(n) == IF n < 0 THEN -n ELSE n

RECURSIVE GCD(_, _)
GCD(a, b) == IF b = 0 THEN a ELSE GCD(b, a % b)

\* The finite float num / den (den > 0), kept in lowest terms so that equal
\* values are equal records.
Float(num, den) ==
    LET g == GCD(Abs(num), den)
    IN  [tag |-> "float", str |-> "", num |-> num \div g, den |-> den \div g]

\* pd.isna on a scalar: None and NaN are missing.
isna(v) == v.tag \in {"none", "nan"}

(***************************************************************************)
(* categorize_program                                                      *)
(***************************************************************************)
\* The same chain with the training rule tested before the maternal rule.
categorize_program_training_first(name) ==
    IF isna(name) THEN "Unknown"
    ELSE LET program_lower == lower(name.str) IN
         IF In("mental health", program_lower) \/ In("pediatric mental", program_lower)
         THEN "Mental Health"
         ELSE IF In("training", program_lower) \/ In("leadership", program_lower)
                 \/ In("education", program_lower)
         THEN "Training & Education"
         ELSE IF In("maternal", program_lower) \/ In("healthy start", program_lower)
         THEN "Maternal Health"
         ELSE IF In("home", program_lower) /\ In("visit", program_lower)
         THEN "Home Visiting"
         ELSE IF In("cshcn", program_lower) \/ In("special", program_lower)
         THEN "Special Healthcare Needs"
         ELSE IF In("emsc", program_lower) \/ In("emergency", program_lower)
         THEN "Emergency Services"
         ELSE IF In("screening", program_lower) \/ In("newborn", program_lower)
         THEN "Screening Programs"
         ELSE "Other"


categorize_program(name) ==
    IF isna(name) THEN "Unknown"
    ELSE LET program_lower == lower(name.str) IN
         IF In("mental health", program_lower) \/ In("pediatric mental", program_lower)
         THEN "Mental Health"
         ELSE IF In("maternal", program_lower) \/ In("healthy start", program_lower)
         THEN "Maternal Health"
         ELSE IF In("home", program_lower) /\ In("visit", program_lower)
         THEN "Home Visiting"
         ELSE IF In("cshcn", program_lower) \/ In("special", program_lower)
         THEN "Special Healthcare Needs"
         ELSE IF In("training", program_lower) \/ In("leadership", program_lower)
                 \/ In("education", program_lower)
         THEN "Training & Education"
         ELSE IF In("emsc", program_lower) \/ In("emergency", program_lower)
         THEN "Emergency Services"
         ELSE IF In("screening", program_lower) \/ In("newborn", program_lower)
         THEN "Screening Programs"
         ELSE "Other"

\* Pieces that program names are built from: every keyword of the chain can be
\* formed, some only across two pieces ("Mental " + "Health", "Health" +
\* "y Start", "Pediatric " + "Mental "), in mixed case, plus a piece that
\* matches nothing.
NameFragments ==
    { "Mental ", "Health", "y Start", "Pediatric ", "Maternal", "HOME", "Visit",
      "cshcn", "Special", "training", "Leadership", "education", "EMSC",
      "emergency", "Screening", "newborn", "Grant" }

MaxNameFragments == 2

RECURSIVE NamesUpTo(_)
NamesUpTo(n) ==
    IF n = 0 THEN {""}
    ELSE LET shorter == NamesUpTo(n - 1)
         IN  shorter \cup {s \o f : s \in shorter, f \in NameFragments}

ProgramNames == {None} \cup {StrVal(s) : s \in NamesUpTo(MaxNameFragments)}

InitCategorize ==
    /\ pc = "call"
    /\ program_name \in ProgramNames
    /\ category = Idle
    /\ amount_str = Idle /\ amount = Idle
    /\ df = Idle /\ summary = Idle
    /\ funding_df = Idle /\ health_df = Idle /\ merged = Idle
    /\ series = Idle /\ method = Idle /\ threshold = Idle /\ flags = Idle
    /\ raised = NoException
    /\ printed = Nothing

\* A call of categorize_program(program_name).
Categorize ==
    /\ pc = "call"
    /\ category' = categorize_program(program_name)
    /\ pc' = "return"
    /\ UNCHANGED << program_name, amount_str, amount, df, summary, funding_df,
                    health_df, merged, series, method, threshold, flags,
                    raised, printed >>

NextCategorize == Categorize

SpecCategorize == InitCategorize /\ [][NextCategorize]_vars

(***************************************************************************)
(* C1.  The rule table of the specification, in its stated order; a rule   *)
(* matches when all of its allOf keywords and, if it has any, one of its   *)
(* anyOf keywords occur in the lowered name.                               *)
(***************************************************************************)
CategoryRules ==
    << [label |-> "Mental Health", anyOf |-> {"mental health", "pediatric mental"}, allOf |-> {}],
       [label |-> "Maternal Health", anyOf |-> {"maternal", "healthy start"}, allOf |-> {}],
       [label |-> "Home Visiting", anyOf |-> {}, allOf |-> {"home", "visit"}],
       [label |-> "Special Healthcare Needs", anyOf |-> {"cshcn", "special"}, allOf |-> {}],
       [label |-> "Training & Education", anyOf |-> {"training", "leadership", "education"}, allOf |-> {}],
       [label |-> "Emergency Services", anyOf |-> {"emsc", "emergency"}, allOf |-> {}],
       [label |-> "Screening Programs", anyOf |-> {"screening", "newborn"}, allOf |-> {}] >>

RuleMatches(rule, text) ==
    /\ \A k \in rule.allOf : In(k, text)
    /\ rule.anyOf # {} => \E k \in rule.anyOf : In(k, text)

MatchingRules(text) == {i \in 1..Len(CategoryRules) : RuleMatches(CategoryRules[i], text)}

FirstRuleLabel(name) ==
    IF name.tag = "none" THEN "Unknown"
    ELSE LET hits == MatchingRules(lower(name.str))
         IN  IF hits = {} THEN "Other"
             ELSE CategoryRules[CHOOSE i \in hits : \A j \in hits : i <= j].label

\* C1: after categorize_program returns, the label is that of the first rule,
\* in the fixed order, that matches the name case-insensitively by substring
\* (Unknown for a missing name, Other when no rule matches); in particular
\* 'maternal' with 'training' gives Maternal Health and 'home' without 'visit'
\* gives Other.
C1_FirstMatchingRule ==
    pc = "return" =>
        /\ category = FirstRuleLabel(program_name)
        /\ program_name = StrVal("Maternaltraining") => category = "Maternal Health"
        /\ program_name = StrVal("trainingMaternal") => category = "Maternal Health"
        /\ program_name = StrVal("HOME") => category = "Other"

\* A name matching both the maternal and the training rule got Maternal Health.
C1_Witness ==
    /\ pc = "return"
    /\ program_name.tag = "str"
    /\ In("maternal", lower(program_name.str))
    /\ In("training", lower(program_name.str))
    /\ category = "Maternal Health"

(***************************************************************************)
(* clean_currency                                                          *)
(***************************************************************************)
Digits == "0123456789"
IsDigit(c) == \E i \in 1..Len(Digits) : CharAt(Digits, i) = c
DigitOf(c) == (CHOOSE i \in 1..Len(Digits) : CharAt(Digits, i) = c) - 1
DigitChar(d) == CharAt(Digits, d + 1)

\* The characters str.strip() and float() treat as whitespace.
Whitespace == {" ", "\t", "\n", "\r"}

RECURSIVE Pow10(_)
Pow10(k) == IF k = 0 THEN 1 ELSE 10 * Pow10(k - 1)

RECURSIVE NatStr(_)
NatStr(n) == IF n < 10 THEN DigitChar(n) ELSE NatStr(n \div 10) \o DigitChar(n % 10)

RECURSIVE FracDigits(_, _)
\* The digits of f / den after the point, den a power of ten.
FracDigits(f, den) ==
    IF den = 1 THEN ""
    ELSE LET d == den \div 10 IN DigitChar(f \div d) \o FracDigits(f % d, d)

\* str(x) of a scalar that is not missing: a string is itself, an int its
\* decimal digits, a float its repr ("inf", "-inf", "2.5", "3.0"; the finite
\* floats modelled as inputs have at most nine decimals and no exponent).
str_(v) ==
    CASE v.tag = "str"   -> v.str
      [] v.tag = "int"   -> (IF v.num < 0 THEN "-" ELSE "") \o NatStr(Abs(v.num))
      [] v.tag = "inf"   -> IF v.num < 0 THEN "-inf" ELSE "inf"
      [] v.tag = "float" ->
            LET k      == CHOOSE k \in 0..9 :
                              /\ Pow10(k) % v.den = 0
                              /\ \A j \in 0..(k - 1) : Pow10(j) % v.den # 0
                scaled == Abs(v.num) * (Pow10(k) \div v.den)
            IN  (IF v.num < 0 THEN "-" ELSE "") \o NatStr(scaled \div Pow10(k)) \o "."
                \o (IF k = 0 THEN "0" ELSE FracDigits(scaled % Pow10(k), Pow10(k)))

RECURSIVE replace(_, _)
\* s.replace(old, '') for a one-character old: every occurrence removed.
replace(s, old) ==
    IF s = "" THEN ""
    ELSE (IF CharAt(s, 1) = old THEN "" ELSE CharAt(s, 1))
         \o replace(SubSeq(s, 2, Len(s)), old)

RECURSIVE lstrip(_)
lstrip(s) ==
    IF s # "" /\ CharAt(s, 1) \in Whitespace THEN lstrip(SubSeq(s, 2, Len(s))) ELSE s

RECURSIVE rstrip(_)
rstrip(s) ==
    IF s # "" /\ CharAt(s, Len(s)) \in Whitespace
    THEN rstrip(SubSeq(s, 1, Len(s) - 1)) ELSE s

\* str.strip(): leading and trailing whitespace removed.
strip(s) == rstrip(lstrip(s))

RECURSIVE DigitsValue(_)
DigitsValue(s) ==
    IF s = "" THEN 0
    ELSE 10 * DigitsValue(SubSeq(s, 1, Len(s) - 1)) + DigitOf(CharAt(s, Len(s)))

Returns(v) == [exc |-> NoException, val |-> v]
Raises(e)  == [exc |-> e, val |-> NaN]

\* float(s) on a string, for the part of its grammar the modelled strings can
\* spell: surrounding whitespace, an optional sign, then "inf", "infinity" or
\* "nan" in any case, or decimal digits with at most one point and at least
\* one digit.  (Exponents and digit-group underscores need 'e' and '_',
\* which no modelled input contains.)  Anything else raises ValueError.
float_(s) ==
    LET t       == strip(s)
        signed  == t # "" /\ CharAt(t, 1) \in {"+", "-"}
        sign    == IF signed /\ CharAt(t, 1) = "-" THEN -1 ELSE 1
        body    == IF signed THEN SubSeq(t, 2, Len(t)) ELSE t
        points  == {i \in 1..Len(body) : CharAt(body, i) = "."}
        point   == IF points = {} THEN Len(body) + 1 ELSE CHOOSE i \in points : TRUE
        whole   == SubSeq(body, 1, point - 1)
        frac    == SubSeq(body, point + 1, Len(body))
        digits  == whole \o frac
    IN  IF lower(body) \in {"inf", "infinity"}
        THEN Returns(IF sign < 0 THEN NegInf ELSE PosInf)
        ELSE IF lower(body) = "nan"
        THEN Returns(NaN)
        ELSE IF /\ Cardinality(points) <= 1
                /\ digits # ""
                /\ \A i \in 1..Len(digits) : IsDigit(CharAt(digits, i))
        THEN Returns(Float(sign * DigitsValue(digits), Pow10(Len(frac))))
        ELSE Raises("ValueError")

\* The body of clean_currency with no try/except around float().
clean_currency_uncaught(amount_in) ==
    IF isna(amount_in) THEN Returns(NaN)
    ELSE float_(strip(replace(replace(str_(amount_in), "$"), ",")))

clean_currency(amount_in) ==
    IF isna(amount_in) THEN Returns(NaN)
    ELSE LET cleaned == strip(replace(replace(str_(amount_in), "$"), ","))
             parsed  == float_(cleaned)
         IN  IF parsed.exc = "ValueError" THEN Returns(NaN) ELSE parsed

\* The characters amount strings are spelled with.
AmountAlphabet == {"$", ",", " ", "0", "1", "-", ".", "a", "i", "n", "f"}

MaxAmountLen == 3

\* The documented examples and a few longer spellings.
AmountExamples ==
    { "$1,234,567", "abc", " $ 1,000.50 ", "-$1,000", "+1.5", "Infinity", "-inf",
      "1.2.3", "$-", "1 000" }

AmountInputs ==
    {StrVal(s) : s \in StringsUpTo(AmountAlphabet, MaxAmountLen) \cup AmountExamples}
    \cup {None, NaN, PosInf, NegInf, IntVal(0), IntVal(12), IntVal(-3),
          Float(25, 10), Float(-5, 10), Float(3, 1)}

InitClean ==
    /\ pc = "call"
    /\ amount_str \in AmountInputs
    /\ amount = Idle
    /\ program_name = Idle /\ category = Idle
    /\ df = Idle /\ summary = Idle
    /\ funding_df = Idle /\ health_df = Idle /\ merged = Idle
    /\ series = Idle /\ method = Idle /\ threshold = Idle /\ flags = Idle
    /\ raised = NoException
    /\ printed = Nothing

\* A call of clean_currency(amount_str).
CleanCurrency ==
    /\ pc = "call"
    /\ LET r == clean_currency(amount_str)
       IN  /\ amount' = r.val
           /\ raised' = r.exc
    /\ pc' = "return"
    /\ UNCHANGED << amount_str, program_name, category, df, summary, funding_df,
                    health_df, merged, series, method, threshold, flags, printed >>

NextClean == CleanCurrency

SpecClean == InitClean /\ [][NextClean]_vars

\* C5: whatever scalar clean_currency is given, it returns the missing marker
\* or a finite number that is not negative.
C5_NonNegativeOrMissing ==
    (pc = "return" /\ raised = NoException) =>
        \/ amount = NaN
        \/ amount.tag = "float" /\ amount.num >= 0

(***************************************************************************)
(* C6.  The text the claim speaks of, computed on its own: the characters  *)
(* other than '$' and ',' between the first and the last one that is not   *)
(* whitespace.                                                             *)
(***************************************************************************)
RECURSIVE WithoutSymbols(_)
WithoutSymbols(s) ==
    IF s = "" THEN ""
    ELSE WithoutSymbols(SubSeq(s, 1, Len(s) - 1))
         \o (IF CharAt(s, Len(s)) \in {"$", ","} THEN "" ELSE CharAt(s, Len(s)))

Trimmed(s) ==
    LET solid == {i \in 1..Len(s) : CharAt(s, i) \notin Whitespace}
    IN  IF solid = {} THEN ""
        ELSE SubSeq(s, CHOOSE i \in solid : \A j \in solid : i <= j,
                       CHOOSE i \in solid : \A j \in solid : i >= j)

AmountText(v) == Trimmed(WithoutSymbols(str_(v)))

\* C6: clean_currency raises nothing; a missing input gives the missing
\* marker, a text that is no number gives the missing marker, a text that is a
\* number gives that number, and '$1,234,567' gives 1234567.0.
C6_NeverRaises ==
    pc = "return" =>
        /\ raised = NoException
        /\ isna(amount_str) => amount = NaN
        /\ ~isna(amount_str) =>
              LET parsed == float_(AmountText(amount_str))
              IN  IF parsed.exc = NoException THEN amount = parsed.val
                  ELSE amount = NaN
        /\ amount_str = StrVal("$1,234,567") => amount = Float(1234567, 1)
        /\ amount_str = StrVal("abc") => amount = NaN
        /\ amount_str = None => amount = NaN

\* A text that float() rejects came back as the missing marker, unraised.
C6_Witness ==
    /\ pc = "return"
    /\ amount_str.tag = "str"
    /\ float_(AmountText(amount_str)).exc = "ValueError"
    /\ amount = NaN
    /\ raised = NoException

(***************************************************************************)
(* get_state_summary                                                       *)
(*                                                                         *)
(* A table is a sequence of rows, a row a record of scalars.  The grant    *)
(* table has the columns State, Amount ('Awardee Amount', a float or NaN   *)
(* after load_grant_data) and GrantNumber ('Grant Number').                *)
(***************************************************************************)
\* Geography codes, in the ascending order groupby() sorts its keys into.
StateCodes == << "CA", "NY", "TX" >>
CodeRank(code) == CHOOSE i \in 1..Len(StateCodes) : StateCodes[i] = code

Column(table, name) == [i \in 1..Len(table) |-> table[i][name]]

\* a < b and a + b on finite floats.
Less(a, b) == a.num * b.den < b.num * a.den
Plus(a, b) == Float(a.num * b.den + b.num * a.den, a.den * b.den)

\* Series.count() under the belief that no entry is missing: the length.
count_rows(values) == Len(values)

\* GroupBy 'count': the entries that are not missing.
count(values) == Cardinality({i \in 1..Len(values) : ~isna(values[i])})

RECURSIVE sum(_)
\* GroupBy 'sum': the total of the entries that are not missing, 0 if none.
sum(values) ==
    IF values = << >> THEN Float(0, 1)
    ELSE LET rest == sum(Tail(values))
         IN  IF isna(Head(values)) THEN rest ELSE Plus(Head(values), rest)

\* GroupBy 'mean': the mean of the entries that are not missing, NaN if none.
mean(values) ==
    LET n == Cardinality({i \in 1..Len(values) : ~isna(values[i])})
        total == sum(values)
    IN  IF n = 0 THEN NaN ELSE Float(total.num, total.den * n)

\* df.groupby(state_col): the distinct keys, ascending, each with its rows in
\* their original order.
GroupKeys(table) ==
    SelectSeq(StateCodes, LAMBDA code : \E i \in 1..Len(table) : table[i].State = code)
GroupRows(table, key) == SelectSeq(table, LAMBDA row : row.State = key)

\* .agg({amount_col: ['sum', 'mean', 'count'], 'Grant Number': 'count'})
\* .reset_index(), with the five columns renamed.
Aggregated(table) ==
    LET keys == GroupKeys(table)
    IN  [k \in 1..Len(keys) |->
            LET rows == GroupRows(table, keys[k])
            IN  [State             |-> keys[k],
                 total_funding     |-> sum(Column(rows, "Amount")),
                 avg_grant_size    |-> mean(Column(rows, "Amount")),
                 num_grants        |-> count(Column(rows, "Amount")),
                 grant_count_check |-> count(Column(rows, "GrantNumber"))]]

\* summary.drop('grant_count_check', axis=1)
DropCheck(table) ==
    [k \in 1..Len(table) |->
        [State          |-> table[k].State,
         total_funding  |-> table[k].total_funding,
         avg_grant_size |-> table[k].avg_grant_size,
         num_grants     |-> table[k].num_grants]]

Orderings(n) == {p \in [1..n -> 1..n] : \A i, j \in 1..n : i # j => p[i] # p[j]}

\* sort_values('total_funding', ascending=False) with pandas' default
\* kind='quicksort', which is not a stable sort: every arrangement of the rows
\* with total_funding non-increasing is a possible result; which one a build
\* produces for rows with equal totals is not determined by the code.
sort_values_descending(table) ==
    { [k \in 1..Len(table) |-> table[p[k]]] : p \in
        { q \in Orderings(Len(table)) :
            \A i \in 1..(Len(table) - 1) :
                ~Less(table[q[i]].total_funding, table[q[i + 1]].total_funding) } }

\* The tables get_state_summary(df) can return.
get_state_summary(table) == sort_values_descending(DropCheck(Aggregated(table)))

AmountValues == {NaN, Float(0, 1), Float(1, 1), Float(2, 1)}

GrantRows ==
    { [State |-> StateCodes[c], Amount |-> a, GrantNumber |-> StrVal("G")] :
        c \in 1..Len(StateCodes), a \in AmountValues }

MaxGrantRows == 3

RECURSIVE TablesUpTo(_, _)
\* All tables of at most n rows drawn from a set of rows.
TablesUpTo(rows, n) ==
    IF n = 0 THEN {<< >>}
    ELSE LET shorter == TablesUpTo(rows, n - 1)
         IN  shorter \cup {Append(t, r) : t \in shorter, r \in rows}

InitSummary ==
    /\ pc = "call"
    /\ df \in TablesUpTo(GrantRows, MaxGrantRows)
    /\ summary = Idle
    /\ program_name = Idle /\ category = Idle
    /\ amount_str = Idle /\ amount = Idle
    /\ funding_df = Idle /\ health_df = Idle /\ merged = Idle
    /\ series = Idle /\ method = Idle /\ threshold = Idle /\ flags = Idle
    /\ raised = NoException
    /\ printed = Nothing

\* A call of get_state_summary(df).
GetStateSummary ==
    /\ pc = "call"
    /\ summary' \in get_state_summary(df)
    /\ pc' = "return"
    /\ UNCHANGED << df, program_name, category, amount_str, amount, funding_df,
                    health_df, merged, series, method, threshold, flags,
                    raised, printed >>

NextSummary == GetStateSummary

SpecSummary == InitSummary /\ [][NextSummary]_vars

RecordsOf(code) == {i \in 1..Len(df) : df[i].State = code}

\* C3: in every returned row, num_grants is the number of source records of
\* that geography, those with a missing amount included.
C3_CountsAllRecords ==
    pc = "return" =>
        \A k \in 1..Len(summary) :
            summary[k].num_grants = Cardinality(RecordsOf(summary[k].State))

\* C4: the returned rows are in descending order of total_funding, and of two
\* rows with equal total_funding the one with the smaller geography code comes
\* first.
C4_TiesByGeography ==
    pc = "return" =>
        \A i, j \in 1..Len(summary) :
            i < j =>
                \/ Less(summary[j].total_funding, summary[i].total_funding)
                \/ /\ summary[i].total_funding = summary[j].total_funding
                   /\ CodeRank(summary[i].State) < CodeRank(summary[j].State)

\* C9: in every returned row of a geography with at least one amount that is
\* not missing, total_funding = avg_grant_size * num_grants.
C9_TotalIsMeanTimesCount ==
    pc = "return" =>
        \A k \in 1..Len(summary) :
            (\E i \in RecordsOf(summary[k].State) : ~isna(df[i].Amount)) =>
                /\ summary[k].avg_grant_size.tag = "float"
                /\ summary[k].total_funding =
                      Float(summary[k].avg_grant_size.num * summary[k].num_grants,
                            summary[k].avg_grant_size.den)

\* A geography with a missing amount and two different present amounts was
\* summarised, with a mean that is not a whole number.
C9_Witness ==
    /\ pc = "return"
    /\ \E k \in 1..Len(summary) :
          /\ \E i \in RecordsOf(summary[k].State) : isna(df[i].Amount)
          /\ summary[k].num_grants = 2
          /\ summary[k].avg_grant_size = Float(3, 2)
          /\ summary[k].total_funding = Float(3, 1)

(***************************************************************************)
(* merge_health_and_funding                                                *)
(*                                                                         *)
(* A frame is [columns |-> sequence of names, rows |-> sequence of rows],  *)
(* a row a function from the column names to scalars.  The two frames      *)
(* share only the join column, so merge() adds no _x/_y suffixes.          *)
(***************************************************************************)
Frame(columns, rows) == [columns |-> columns, rows |-> rows]
HasColumn(frame, name) == \E i \in 1..Len(frame.columns) : frame.columns[i] = name

RECURSIVE Flatten(_)
Flatten(seqs) == IF seqs = << >> THEN << >> ELSE Head(seqs) \o Flatten(Tail(seqs))

\* left.merge(right, on=on, how='left'): the left rows in their order, each
\* once per right row with an equal key (in the right rows' order), or once
\* with every right column missing when no right row has its key.
merge_left(left, right, on) ==
    LET added == SelectSeq(right.columns, LAMBDA c : c # on)
        extend(l, r) == [c \in DOMAIN l \cup {added[i] : i \in 1..Len(added)} |->
                            IF c \in DOMAIN l THEN l[c] ELSE r[c]]
        blank == [c \in {added[i] : i \in 1..Len(added)} |-> NaN]
        rowsFor(l) ==
            LET hits == SelectSeq(right.rows, LAMBDA r : r[on] = l[on])
            IN  IF hits = << >> THEN << extend(l, blank) >>
                ELSE [h \in 1..Len(hits) |-> extend(l, hits[h])]
    IN  Frame(left.columns \o added,
              Flatten([i \in 1..Len(left.rows) |-> rowsFor(left.rows[i])]))

\* merge_health_and_funding(funding_df, health_df, on): what it returns,
\* raises and prints.
merge_health_and_funding(funding, health, on) ==
    LET result   == merge_left(funding, health, on)
        progress == << [msg |-> "Merging funding and health data on", n |-> 0],
                       [msg |-> "Merged dataset records", n |-> Len(result.rows)],
                       [msg |-> "Merged dataset columns", n |-> Len(result.columns)] >>
    IN  IF ~HasColumn(result, "infant_mortality_rate")
        THEN \* merged['infant_mortality_rate'] on a frame without that column
             [exc |-> "KeyError", val |-> Idle, out |-> progress]
        ELSE LET unmatched == SelectSeq(result.rows,
                                  LAMBDA row : isna(row["infant_mortality_rate"]))
             IN  [exc |-> NoException,
                  val |-> result,
                  out |-> IF Len(unmatched) > 0
                          THEN Append(progress, [msg |-> "Warning: records without health data",
                                                 n |-> Len(unmatched)])
                          ELSE progress]

MergeCodes == {"CA", "TX"}

FundingRows ==
    { [c \in {"state", "total_funding"} |->
          IF c = "state" THEN StrVal(code) ELSE total] :
        code \in MergeCodes, total \in {Float(1, 1), Float(2, 1)} }

\* Health rows with the indicator column (present or missing in the row).
HealthRows ==
    { [c \in {"state", "infant_mortality_rate"} |->
          IF c = "state" THEN StrVal(code) ELSE rate] :
        code \in MergeCodes, rate \in {Float(5, 1), NaN} }

\* Health rows of a table whose schema lacks the indicator column.
OtherHealthRows ==
    { [c \in {"state", "prenatal_care_pct"} |->
          IF c = "state" THEN StrVal(code) ELSE Float(80, 1)] : code \in MergeCodes }

MaxFundingRows == 2
MaxHealthRows == 2

FundingFrames ==
    {Frame(<< "state", "total_funding" >>, rows) : rows \in TablesUpTo(FundingRows, MaxFundingRows)}

HealthFrames ==
    {Frame(<< "state", "infant_mortality_rate" >>, rows) :
        rows \in TablesUpTo(HealthRows, MaxHealthRows)}
    \cup {Frame(<< "state", "prenatal_care_pct" >>, rows) :
        rows \in TablesUpTo(OtherHealthRows, MaxHealthRows)}

InitMerge ==
    /\ pc = "call"
    /\ funding_df \in FundingFrames
    /\ health_df \in HealthFrames
    /\ merged = Idle
    /\ program_name = Idle /\ category = Idle
    /\ amount_str = Idle /\ amount = Idle
    /\ df = Idle /\ summary = Idle
    /\ series = Idle /\ method = Idle /\ threshold = Idle /\ flags = Idle
    /\ raised = NoException
    /\ printed = Nothing

\* A call of merge_health_and_funding(funding_df, health_df) with on='state'.
MergeHealthAndFunding ==
    /\ pc = "call"
    /\ LET r == merge_health_and_funding(funding_df, health_df, "state")
       IN  /\ merged' = r.val
           /\ raised' = r.exc
           /\ printed' = r.out
    /\ pc' = "return"
    /\ UNCHANGED << funding_df, health_df, program_name, category, amount_str,
                    amount, df, summary, series, method, threshold, flags >>

NextMerge == MergeHealthAndFunding

SpecMerge == InitMerge /\ [][NextMerge]_vars

\* C2: the returned table has exactly one row per left row: as many rows as
\* the left table, the i-th agreeing with the i-th left row on the left
\* columns.
C2_OneRowPerLeftRow ==
    (pc = "return" /\ raised = NoException) =>
        /\ Len(merged.rows) = Len(funding_df.rows)
        /\ \A i \in 1..Len(funding_df.rows) :
              \A c \in DOMAIN funding_df.rows[i] :
                  merged.rows[i][c] = funding_df.rows[i][c]

\* C7: when the right table's schema has no health-indicator column, the call
\* fails with SchemaMismatch.
C7_SchemaMismatch ==
    (pc = "return" /\ ~HasColumn(health_df, "infant_mortality_rate")) =>
        raised = "SchemaMismatch"

(***************************************************************************)
(* identify_outliers                                                       *)
(*                                                                         *)
(* A series is a sequence of floats, NaN for a missing entry.  Arithmetic  *)
(* is exact on fractions.                                                  *)
(***************************************************************************)
Minus(a, b) == Float(a.num * b.den - b.num * a.den, a.den * b.den)
Times(a, b) == Float(a.num * b.num, a.den * b.den)

\* The entries of a series that are not missing, in order.
Valid(values) == SelectSeq(values, LAMBDA v : ~isna(v))

RECURSIVE Insert(_, _)
Insert(v, sorted) ==
    IF sorted = << >> THEN << v >>
    ELSE IF Less(Head(sorted), v) THEN << Head(sorted) >> \o Insert(v, Tail(sorted))
    ELSE << v >> \o sorted

RECURSIVE Sorted(_)
\* The values in ascending order.
Sorted(values) ==
    IF values = << >> THEN << >> ELSE Insert(Head(values), Sorted(Tail(values)))

\* Series.quantile(q), q = qnum / qden: over the entries that are not missing,
\* sorted, the value at position q * (n - 1) counted from 0, linearly
\* interpolated between its two neighbours; NaN when there is no entry.
quantile(values, qnum, qden) ==
    LET v    == Sorted(Valid(values))
        n    == Len(v)
        lo   == (qnum * (n - 1)) \div qden
        part == Float((qnum * (n - 1)) % qden, qden)
    IN  IF n = 0 THEN NaN
        ELSE IF part.num = 0 THEN v[lo + 1]
        ELSE Plus(v[lo + 1], Times(Minus(v[lo + 2], v[lo + 1]), part))

\* Series.mean(): over the entries that are not missing.
series_mean(values) == mean(values)

RECURSIVE SumSquares(_, _)
SumSquares(values, centre) ==
    IF values = << >> THEN Float(0, 1)
    ELSE LET d == Minus(Head(values), centre)
         IN  Plus(Times(d, d), SumSquares(Tail(values), centre))

\* The square of Series.std(): pandas' default ddof=1, the sum of squared
\* deviations of the n entries that are not missing over n - 1; NaN for n < 2.
variance(values) ==
    LET v == Valid(values)
    IN  IF Len(v) < 2 THEN NaN
        ELSE LET ss == SumSquares(v, mean(v)) IN Float(ss.num, ss.den * (Len(v) - 1))

\* The 'iqr' branch with the bounds themselves counted as outside.
iqr_mask_inclusive(values, limit) ==
    LET Q1 == quantile(values, 1, 4)
        Q3 == quantile(values, 3, 4)
    IN  [i \in 1..Len(values) |->
            IF isna(values[i]) \/ isna(Q1) THEN FALSE
            ELSE LET IQR         == Minus(Q3, Q1)
                     lower_bound == Minus(Q1, Times(limit, IQR))
                     upper_bound == Plus(Q3, Times(limit, IQR))
                 IN  ~Less(lower_bound, values[i]) \/ ~Less(values[i], upper_bound)]

\* The 'iqr' branch: a comparison with a NaN on either side is False.
iqr_mask(values, limit) ==
    LET Q1 == quantile(values, 1, 4)
        Q3 == quantile(values, 3, 4)
    IN  [i \in 1..Len(values) |->
            IF isna(values[i]) \/ isna(Q1) THEN FALSE
            ELSE LET IQR         == Minus(Q3, Q1)
                     lower_bound == Minus(Q1, Times(limit, IQR))
                     upper_bound == Plus(Q3, Times(limit, IQR))
                 IN  Less(values[i], lower_bound) \/ Less(upper_bound, values[i])]

\* The 'zscore' branch: np.abs((series - mean) / std) > threshold.  The
\* quotient is NaN (never greater) for a missing entry, for a NaN std and for
\* 0 / 0; otherwise |d| / std > t is decided without the square root: it is
\* true for t < 0, and d * d > t * t * std * std for t >= 0.
zscore_mask(values, limit) ==
    LET m  == series_mean(values)
        s2 == variance(values)
    IN  [i \in 1..Len(values) |->
            IF isna(values[i]) \/ isna(s2) \/ s2.num = 0 THEN FALSE
            ELSE LET d == Minus(values[i], m)
                 IN  limit.num < 0 \/ Less(Times(Times(limit, limit), s2), Times(d, d))]

\* identify_outliers with its final else branch returning an all-False mask.
identify_outliers_lenient(values, how, limit) ==
    IF how = "iqr" THEN Returns(iqr_mask(values, limit))
    ELSE IF how = "zscore" THEN Returns(zscore_mask(values, limit))
    ELSE Returns([i \in 1..Len(values) |-> FALSE])

identify_outliers(values, how, limit) ==
    IF how = "iqr" THEN Returns(iqr_mask(values, limit))
    ELSE IF how = "zscore" THEN Returns(zscore_mask(values, limit))
    ELSE [exc |-> "ValueError", val |-> << >>]

SeriesValues == {NaN, Float(0, 1), Float(1, 1), Float(10, 1)}

MaxSeriesLen == 4

\* The documented example, and a series with a missing entry and an outlier.
SeriesExamples ==
    { << Float(1, 1), Float(2, 1), Float(3, 1), Float(4, 1), Float(100, 1) >>,
      << NaN, Float(0, 1), Float(0, 1), Float(0, 1), Float(10, 1) >> }

Methods == {"iqr", "zscore", "IQR", "z-score", "mad", ""}

\* 1.5 (the default), 1 and 2.
Thresholds == {Float(3, 2), Float(1, 1), Float(2, 1)}

\* What the caller holds after the call: a mask if the call returned one.
NoFlags == [returned |-> FALSE, mask |-> << >>]
Flags(mask) == [returned |-> TRUE, mask |-> mask]

InitOutliers ==
    /\ pc = "call"
    /\ series \in TablesUpTo(SeriesValues, MaxSeriesLen) \cup SeriesExamples
    /\ method \in Methods
    /\ threshold \in Thresholds
    /\ flags = NoFlags
    /\ program_name = Idle /\ category = Idle
    /\ amount_str = Idle /\ amount = Idle
    /\ df = Idle /\ summary = Idle
    /\ funding_df = Idle /\ health_df = Idle /\ merged = Idle
    /\ raised = NoException
    /\ printed = Nothing

\* A call of identify_outliers(series, method, threshold).
IdentifyOutliers ==
    /\ pc = "call"
    /\ LET r == identify_outliers(series, method, threshold)
       IN  /\ flags' = IF r.exc = NoException THEN Flags(r.val) ELSE NoFlags
           /\ raised' = r.exc
    /\ pc' = "return"
    /\ UNCHANGED << series, method, threshold, program_name, category,
                    amount_str, amount, df, summary, funding_df, health_df,
                    merged, printed >>

NextOutliers == IdentifyOutliers

SpecOutliers == InitOutliers /\ [][NextOutliers]_vars

\* C8: with a method selector other than 'iqr' and 'zscore' the call raises the
\* invalid-method error (ValueError "Method must be 'iqr' or 'zscore'") and
\* returns no flags, whatever the series and threshold; with 'iqr' or 'zscore'
\* it raises nothing and returns a flag per element.
C8_InvalidMethod ==
    pc = "return" =>
        IF method \in {"iqr", "zscore"}
        THEN raised = NoException /\ flags.returned /\ Len(flags.mask) = Len(series)
        ELSE raised = "ValueError" /\ flags = NoFlags

\* A selector that differs from 'iqr' only in case was refused on a series
\* that has an entry to flag.
C8_Witness ==
    /\ pc = "return"
    /\ method = "IQR"
    /\ Len(series) > 0
    /\ raised = "ValueError"
    /\ flags = NoFlags

(***************************************************************************)
(* C11.  The quartiles of the entries that are not missing, computed from  *)
(* ranks: the k-th smallest entry is the one with fewer than k entries     *)
(* below it and at least k entries not above it; the quartile at q lies    *)
(* q * (n - 1) steps above the smallest, between neighbouring entries in   *)
(* proportion.                                                             *)
(***************************************************************************)
Present(values) == {i \in 1..Len(values) : values[i].tag = "float"}

KthSmallest(values, k) ==
    LET P == Present(values)
        x == CHOOSE i \in P :
                 /\ Cardinality({j \in P : Less(values[j], values[i])}) < k
                 /\ Cardinality({j \in P : ~Less(values[i], values[j])}) >= k
    IN  values[x]

Quartile(values, quarters) ==
    LET n     == Cardinality(Present(values))
        steps == quarters * (n - 1)
        part == steps % 4
        low  == KthSmallest(values, (steps \div 4) + 1)
    IN  IF part = 0 THEN low
        ELSE LET high == KthSmallest(values, (steps \div 4) + 2)
             IN  Float(low.num * high.den * (4 - part) + high.num * low.den * part,
                       4 * low.den * high.den)

OutsideFences(values, i, limit) ==
    /\ i \in Present(values)
    /\ LET Q1  == Quartile(values, 1)
           Q3  == Quartile(values, 3)
           IQR == Minus(Q3, Q1)
       IN  \/ Less(values[i], Minus(Q1, Times(limit, IQR)))
           \/ Less(Plus(Q3, Times(limit, IQR)), values[i])

\* C11: with method 'iqr' the call returns one flag per element; an element is
\* flagged exactly when it is not missing and lies strictly below
\* Q1 - threshold*IQR or strictly above Q3 + threshold*IQR, the quartiles taken
\* over the elements that are not missing; a missing element is never flagged;
\* [1,2,3,4,100] with threshold 1.5 has only its last element flagged.
C11_IqrFlags ==
    (pc = "return" /\ method = "iqr") =>
        /\ flags.returned
        /\ Len(flags.mask) = Len(series)
        /\ \A i \in 1..Len(series) :
              flags.mask[i] = OutsideFences(series, i, threshold)
        /\ \A i \in 1..Len(series) : series[i] = NaN => flags.mask[i] = FALSE
        /\ (/\ series = << Float(1, 1), Float(2, 1), Float(3, 1), Float(4, 1), Float(100, 1) >>
            /\ threshold = Float(3, 2))
              => flags.mask = << FALSE, FALSE, FALSE, FALSE, TRUE >>

\* A series with a missing entry had an entry flagged by the 'iqr' method, the
\* missing one and another left unflagged.
C11_Witness ==
    /\ pc = "return"
    /\ method = "iqr"
    /\ flags.returned
    /\ \E i, j, k \in 1..Len(series) :
          /\ series[i] = NaN /\ ~flags.mask[i]
          /\ series[j] # NaN /\ flags.mask[j]
          /\ series[k] # NaN /\ ~flags.mask[k]

(***************************************************************************)
(* C12.  The population variance of the entries that are not missing: the  *)
(* sum of their squared deviations from their mean over their number n.    *)
(***************************************************************************)
PopulationVariance(values) ==
    LET v  == SelectSeq(values, LAMBDA x : x.tag = "float")
        ss == SumSquares(v, mean(v))
    IN  Float(ss.num, ss.den * Len(v))

ExceedsPopulationZ(values, i, limit) ==
    /\ i \in Present(values)
    /\ LET d  == Minus(values[i], mean(values))
           s2 == PopulationVariance(values)
       IN  /\ s2.num # 0
           /\ limit.num < 0 \/ Less(Times(Times(limit, limit), s2), Times(d, d))

\* C12: with method 'zscore' an element is flagged exactly when it is not
\* missing and |x - mean| over the population standard deviation (divisor n)
\* of the elements that are not missing exceeds the threshold.
C12_PopulationZScore ==
    (pc = "return" /\ method = "zscore") =>
        /\ flags.returned
        /\ \A i \in 1..Len(series) :
              flags.mask[i] = ExceedsPopulationZ(series, i, threshold)

(***************************************************************************)
(* validate_data_quality                                                   *)
(*                                                                         *)
(* The function returns nothing; its report is what it prints.  A run      *)
(* appends one report to `printed`, so that two runs on one table can be   *)
(* compared.                                                               *)
(***************************************************************************)
\* round(2) of a fraction that is not negative: to the nearest hundredth,
\* halves to the even one.
round2(x) ==
    LET p     == x.num * 100
        whole == p \div x.den
        rest  == p % x.den
    IN  IF 2 * rest < x.den THEN Float(whole, 100)
        ELSE IF 2 * rest > x.den THEN Float(whole + 1, 100)
        ELSE Float(IF whole % 2 = 0 THEN whole ELSE whole + 1, 100)

\* round(2) that cuts the digits off instead of rounding.
missing_pct_truncated(m, n) ==
    IF n = 0 THEN NaN ELSE Float((m * 10000) \div n, 100)

\* (missing / len(df) * 100).round(2) for one column; 0 / 0 is NaN.
missing_pct(m, n) ==
    IF n = 0 THEN NaN ELSE round2(Times(Float(m, n), Float(100, 1)))

\* df.isnull().sum(), per column, in column order, with its percentage.
missing_df(frame) ==
    [c \in 1..Len(frame.columns) |->
        LET m == Cardinality({i \in 1..Len(frame.rows) :
                                 isna(frame.rows[i][frame.columns[c]])})
        IN  [column  |-> frame.columns[c],
             Missing |-> m,
             Percent |-> missing_pct(m, Len(frame.rows))]]

\* .sort_values('Missing', ascending=False), default kind='quicksort': the
\* arrangements with Missing non-increasing (see sort_values_descending).
sort_by_missing_descending(table) ==
    { [k \in 1..Len(table) |-> table[p[k]]] : p \in
        { q \in Orderings(Len(table)) :
            \A i \in 1..(Len(table) - 1) :
                table[q[i]].Missing >= table[q[i + 1]].Missing } }

\* df.duplicated().sum(): the rows equal, in every column, to an earlier row.
duplicated_sum(frame) ==
    Cardinality({i \in 1..Len(frame.rows) :
                    \E j \in 1..(i - 1) : frame.rows[j] = frame.rows[i]})

\* Series.median(): the middle entry of the sorted entries that are not
\* missing, or the mean of the two middle ones; NaN when there is none.
median(values) ==
    LET v == Sorted(Valid(values))
        n == Len(v)
    IN  IF n = 0 THEN NaN
        ELSE IF n % 2 = 1 THEN v[(n + 1) \div 2]
        ELSE Times(Plus(v[n \div 2], v[n \div 2 + 1]), Float(1, 2))

\* f"{x:,.2f}" of an amount that is not negative: two decimals, 'nan' for NaN.
Format2(x) == IF isna(x) THEN NaN ELSE round2(x)

\* The "Grant Amounts" block: min, max, mean and median of the amounts that
\* are not missing, printed only when the column exists.
amount_stats(frame) ==
    IF ~HasColumn(frame, "Awardee Amount") THEN << >>
    ELSE LET values == [i \in 1..Len(frame.rows) |-> frame.rows[i]["Awardee Amount"]]
             v      == Sorted(Valid(values))
         IN  << Format2(IF v = << >> THEN NaN ELSE v[1]),
                Format2(IF v = << >> THEN NaN ELSE v[Len(v)]),
                Format2(mean(values)),
                Format2(median(values)) >>

\* The reports validate_data_quality(df) can print: one per arrangement the
\* sort of the missing-value table can produce.
validate_data_quality(frame) ==
    LET listed == SelectSeq(missing_df(frame), LAMBDA row : row.Missing > 0)
    IN  { [total_records |-> Len(frame.rows),
           total_columns |-> Len(frame.columns),
           missing       |-> table,
           duplicates    |-> duplicated_sum(frame),
           amounts       |-> amount_stats(frame)] :
          table \in sort_by_missing_descending(listed) }

QualityRows ==
    { [c \in {"State", "Awardee Amount"} |-> IF c = "State" THEN code ELSE a] :
        code \in {StrVal("CA"), None}, a \in {NaN, Float(1, 1), Float(2, 1)} }

\* Rows of a table that has no amount column.
OtherQualityRows ==
    { [c \in {"State", "Program"} |-> IF c = "State" THEN code ELSE name] :
        code \in {StrVal("CA"), None}, name \in {StrVal("Healthy Start"), None} }

MaxQualityRows == 3
MaxRuns == 2

QualityFrames ==
    {Frame(<< "State", "Awardee Amount" >>, rows) :
        rows \in TablesUpTo(QualityRows, MaxQualityRows)}
    \cup {Frame(<< "State", "Program" >>, rows) :
        rows \in TablesUpTo(OtherQualityRows, MaxQualityRows)}

InitQuality ==
    /\ pc = "call"
    /\ df \in QualityFrames
    /\ printed = << >>
    /\ summary = Idle
    /\ program_name = Idle /\ category = Idle
    /\ amount_str = Idle /\ amount = Idle
    /\ funding_df = Idle /\ health_df = Idle /\ merged = Idle
    /\ series = Idle /\ method = Idle /\ threshold = Idle /\ flags = Idle
    /\ raised = NoException

SameEntries(a, b) == {a[i] : i \in 1..Len(a)} = {b[i] : i \in 1..Len(b)}

\* A run of validate_data_quality(df).  The sort is a deterministic
\* algorithm: a table it has arranged in an earlier run it arranges the same
\* way again.  Nothing in the function assigns to df.
ValidateDataQuality ==
    /\ Len(printed) < MaxRuns
    /\ \E report \in validate_data_quality(df) :
          /\ \A e \in 1..Len(printed) :
                SameEntries(printed[e].missing, report.missing) =>
                    report.missing = printed[e].missing
          /\ printed' = Append(printed, report)
    /\ pc' = "return"
    /\ UNCHANGED << df, summary, program_name, category, amount_str, amount,
                    funding_df, health_df, merged, series, method, threshold,
                    flags, raised >>

NextQuality == ValidateDataQuality

SpecQuality == InitQuality /\ [][NextQuality]_vars

(***************************************************************************)
(* C10.  What the claim says a report holds, computed from the table       *)
(* without the code's operators.                                           *)
(***************************************************************************)
MissingIn(frame, name) == {i \in 1..Len(frame.rows) : frame.rows[i][name] \in {None, NaN}}

\* round(100 * m / n, 2) in hundredths, for 0 < m <= n.
ClaimedPercent(m, n) ==
    LET below == (10000 * m) \div n
        h == CHOOSE k \in {below, below + 1} :
                 \/ 2 * Abs(k * n - 10000 * m) < n
                 \/ 2 * Abs(k * n - 10000 * m) = n /\ k % 2 = 0
    IN  Float(h, 100)

ReportAsClaimed(frame, report) ==
    /\ report.total_records = Len(frame.rows)
    /\ report.total_columns = Len(frame.columns)
    /\ {report.missing[k].column : k \in 1..Len(report.missing)}
          = {frame.columns[c] : c \in {d \in 1..Len(frame.columns) :
                                            MissingIn(frame, frame.columns[d]) # {}}}
    /\ \A k, l \in 1..Len(report.missing) :
          k # l => report.missing[k].column # report.missing[l].column
    /\ \A k \in 1..Len(report.missing) :
          LET m == Cardinality(MissingIn(frame, report.missing[k].column))
          IN  /\ report.missing[k].Missing = m
              /\ report.missing[k].Percent = ClaimedPercent(m, Len(frame.rows))
    /\ report.duplicates =
          Len(frame.rows) - Cardinality({frame.rows[i] : i \in 1..Len(frame.rows)})
    /\ (\A i, j \in 1..Len(frame.rows) : i # j => frame.rows[i] # frame.rows[j])
          => report.duplicates = 0

C10_Step ==
    /\ df' = df
    /\ \A r \in 1..Len(printed') : ReportAsClaimed(df', printed'[r])
    /\ \A r, t \in 1..Len(printed') : printed'[r] = printed'[t]

\* C10: a run of validate_data_quality leaves the table as it was; every
\* report has the row and column counts, lists exactly the columns with a
\* missing value, each with its count m and round(100*m/n, 2), and counts the
\* full-row duplicates (0 when the rows are all different); the reports of two
\* runs on the same table are identical.
C10_QualityReport == [][C10_Step]_vars

\* Two runs were made on a table of three rows with a duplicated row and a
\* column missing in two rows out of three (66.67 percent).
C10_Witness ==
    /\ Len(printed) = 2
    /\ Len(df.rows) = 3
    /\ printed[2].duplicates = 1
    /\ \E k \in 1..Len(printed[2].missing) :
          /\ printed[2].missing[k].Missing = 2
          /\ printed[2].missing[k].Percent = Float(6667, 100)

====
